---- MODULE Spec2Model ----
(***************************************************************************)
(* LinkedList<T> of render3/view/pipeline/ir/linked_list.ts: an intrusive  *)
(* doubly-linked list.  Nodes are object identities 1..MaxNodes, Null is   *)
(* the null reference.  Two LinkedList objects exist: list 1 ("this") and  *)
(* list 2 (the argument of prependList).  The second part is the lowering  *)
(* pass of the same file, TemplateToIrConverter, which appends the         *)
(* operations of a template to create and update lists of its own.         *)
(***************************************************************************)
EXTENDS Integers, Sequences, FiniteSets, TLC

\* Number of node objects that can be constructed.
MaxNodes == 6

\* Number of calls a client makes on the lists.
MaxCalls == 6

\* Largest sort key a node payload carries.
MaxKey == 2

Null == 0
Nodes == 1..MaxNodes
Lists == {1, 2}

\* Ghost values of owner[n] besides a list: Detached for a node that is in no
\* list (never inserted, or removed), Replaced for a node whose place a
\* transform gave to another node.
Detached == Null
Replaced == Cardinality(Lists) + 1

VARIABLES
  head,       \* head[l]: LinkedList.head of list l
  tail,       \* tail[l]: LinkedList.tail of list l
  prev,       \* prev[n]: LinkedListNode.prev of node n
  next,       \* next[n]: LinkedListNode.next of node n
  allocated,  \* nodes 1..allocated have been constructed
  owner,      \* ghost: the list each node was inserted into and not removed from
  spent,      \* ghost: list 2 was handed to prependList and must not be reused
  err,        \* "none", or the error the last call ended with
  calls,      \* number of calls made so far
  last        \* ghost: the last call, its arguments, result and the sequence before it

vars == <<head, tail, prev, next, allocated, owner, spent, err, calls, last>>

\* The program's memory as one value, so that methods are operators on it.
Heap == [head |-> head, tail |-> tail, prev |-> prev, next |-> next]

----------------------------------------------------------------------------
(* Traversal *)

\* forEach: follow next from the head, collecting nodes; the walk is cut
\* after fuel steps, so a result longer than MaxNodes means the real loop
\* does not terminate.
RECURSIVE Walk(_, _, _)
Walk(h, node, fuel) ==
  IF node = Null \/ fuel = 0 THEN <<>>
  ELSE <<node>> \o Walk(h, h.next[node], fuel - 1)

forEach(h, l) == Walk(h, h.head[l], MaxNodes + 1)

Terminates(h, l) == Len(forEach(h, l)) <= MaxNodes

toArray(h, l) == forEach(h, l)

Range(s) == {s[i] : i \in 1..Len(s)}

\* The nodes at positions i..j of a sequence.
Run(s, i, j) == {s[x] : x \in i..j}

IndexOf(s, x) == CHOOSE i \in 1..Len(s) : s[i] = x

NoDuplicates(s) == \A i \in 1..Len(s), j \in 1..Len(s) : s[i] = s[j] => i = j

\* The head/tail/link invariants of a list (spec section 3).
HeadTailOk(h, l) ==
  /\ (h.head[l] = Null) <=> (h.tail[l] = Null)
  /\ h.head[l] # Null => h.prev[h.head[l]] = Null /\ h.next[h.tail[l]] = Null

LinksOk(h, l) ==
  LET arr == forEach(h, l) IN
  /\ \A i \in 1..(Len(arr) - 1) : h.prev[arr[i + 1]] = arr[i]
  /\ \A i \in 1..Len(arr) :
       /\ h.prev[arr[i]] = Null => arr[i] = h.head[l]
       /\ h.next[arr[i]] = Null => arr[i] = h.tail[l]

ChainOk(h, l) ==
  LET arr == forEach(h, l) IN
  /\ Terminates(h, l)
  /\ NoDuplicates(arr)
  /\ IF arr = <<>> THEN h.tail[l] = Null ELSE arr[Len(arr)] = h.tail[l]

WellFormed(h, l) == HeadTailOk(h, l) /\ LinksOk(h, l) /\ ChainOk(h, l)

----------------------------------------------------------------------------
(* Methods of LinkedList, as operators on the heap *)

insertBefore(h, l, before, insert) ==
  LET h1 == IF h.head[l] = before THEN [h EXCEPT !.head[l] = insert] ELSE h
      h2 == [h1 EXCEPT !.prev[insert] = h1.prev[before]]
      h3 == [h2 EXCEPT !.next[insert] = before]
      h4 == IF h3.prev[before] # Null
            THEN [h3 EXCEPT !.next[h3.prev[before]] = insert]
            ELSE h3
  IN  [h4 EXCEPT !.prev[before] = insert]

insertAfter(h, l, after, insert) ==
  LET h1 == IF h.tail[l] = after THEN [h EXCEPT !.tail[l] = insert] ELSE h
      h2 == [h1 EXCEPT !.prev[insert] = after]
      h3 == [h2 EXCEPT !.next[insert] = h2.next[after]]
      h4 == IF h3.next[after] # Null
            THEN [h3 EXCEPT !.prev[h3.next[after]] = insert]
            ELSE h3
  IN  [h4 EXCEPT !.next[after] = insert]

\* append that links node behind the tail but leaves this.tail as it was.
appendKeepTail(h, l, node) ==
  IF h.tail[l] # Null
  THEN LET h1 == [h EXCEPT !.prev[node] = h.tail[l]]
       IN  [h1 EXCEPT !.next[h1.tail[l]] = node]
  ELSE [h EXCEPT !.head[l] = node, !.tail[l] = node]

append(h, l, node) ==
  IF h.tail[l] # Null
  THEN LET h1 == [h EXCEPT !.prev[node] = h.tail[l]]
           h2 == [h1 EXCEPT !.next[h1.tail[l]] = node]
       IN  [h2 EXCEPT !.tail[l] = node]
  ELSE [h EXCEPT !.head[l] = node, !.tail[l] = node]

\* The two final assignments of remove: node.prev = null; node.next = null.
ClearLinks(h, node) == [h EXCEPT !.prev[node] = Null, !.next[node] = Null]

\* remove returns the heap, the returned reference and the error thrown.
remove(h, l, node) ==
  LET nxt == h.next[node] IN
  IF h.head[l] = node
  THEN LET h1 == [h EXCEPT !.head[l] = h.next[node]]
           h2 == IF h1.tail[l] = node THEN [h1 EXCEPT !.tail[l] = h1.next[node]] ELSE h1
       IN  [h |-> ClearLinks(h2, node), ret |-> nxt, err |-> "none"]
  ELSE IF h.prev[node] # Null
  THEN LET h1 == [h EXCEPT !.next[h.prev[node]] = h.next[node]] IN
       IF h1.tail[l] = node
       THEN [h |-> ClearLinks([h1 EXCEPT !.tail[l] = h1.prev[node]], node),
             ret |-> nxt, err |-> "none"]
       ELSE IF h1.next[node] # Null
       THEN [h |-> ClearLinks([h1 EXCEPT !.prev[h1.next[node]] = h1.prev[node]], node),
             ret |-> nxt, err |-> "none"]
       ELSE [h |-> h1, ret |-> Null, err |-> "AssertionError: non-tail node has null next pointer"]
  ELSE [h |-> h, ret |-> Null, err |-> "AssertionError: non-head node has null prev pointer"]

\* this = list l, the argument = list o.
prependList(h, l, o) ==
  IF h.tail[o] = Null \/ h.head[o] = Null THEN h
  ELSE IF h.head[l] = Null
  THEN [h EXCEPT !.head[l] = h.head[o], !.tail[l] = h.tail[o]]
  ELSE LET h1 == [h EXCEPT !.prev[h.head[l]] = h.tail[o]]
           h2 == [h1 EXCEPT !.next[h1.tail[o]] = h1.head[l]]
       IN  [h2 EXCEPT !.head[l] = h2.head[o]]

----------------------------------------------------------------------------
(* sortSubset *)

\* The comparators a client passes: a comparator reads a key from the payload
\* of each node.  "byKey" orders by key (a total order with ties), "byGap"
\* puts a before b only when a's key is smaller by more than one (a partial
\* order: keys one apart are unordered and compare 0).
Keys == 0..MaxKey
Modes == {"byKey", "byGap"}
\* The comparator of mode m over the keys k of the nodes it is applied to.
Comparator(m, k) ==
  [mode |-> m, key |-> [n \in Nodes |-> IF n \in DOMAIN k THEN k[n] ELSE 0]]
NoCmp == [mode |-> "none", key |-> [n \in Nodes |-> 0]]

cmp(c, a, b) ==
  IF c.mode = "byKey"
  THEN (IF c.key[a] < c.key[b] THEN -1 ELSE IF c.key[a] > c.key[b] THEN 1 ELSE 0)
  ELSE (IF c.key[a] + 1 < c.key[b] THEN -1 ELSE IF c.key[b] + 1 < c.key[a] THEN 1 ELSE 0)

\* Scan with the comparison reversed: node is put before the first pos it
\* sorts strictly after.
RECURSIVE ScanReversed(_, _, _, _, _, _)
ScanReversed(h, c, node, pos, nxt, fuel) ==
  IF pos = nxt THEN [pos |-> Null, err |-> "none"]
  ELSE IF pos = Null THEN [pos |-> Null, err |-> "TypeError"]
  ELSE IF fuel = 0 THEN [pos |-> Null, err |-> "diverges"]
  ELSE IF cmp(c, node, pos) > 0 THEN [pos |-> pos, err |-> "none"]
  ELSE ScanReversed(h, c, node, h.next[pos], nxt, fuel - 1)

\* Scan with <= 0 in place of < 0: node is also put before a pos it compares
\* equal to.
RECURSIVE ScanNotAfter(_, _, _, _, _, _)
ScanNotAfter(h, c, node, pos, nxt, fuel) ==
  IF pos = nxt THEN [pos |-> Null, err |-> "none"]
  ELSE IF pos = Null THEN [pos |-> Null, err |-> "TypeError"]
  ELSE IF fuel = 0 THEN [pos |-> Null, err |-> "diverges"]
  ELSE IF cmp(c, node, pos) <= 0 THEN [pos |-> pos, err |-> "none"]
  ELSE ScanNotAfter(h, c, node, h.next[pos], nxt, fuel - 1)

\* The for loop of sortSubset: the first pos, from tmpStart up to but not
\* including nxt, that node sorts strictly before; Null when there is none.
RECURSIVE Scan(_, _, _, _, _, _)
Scan(h, c, node, pos, nxt, fuel) ==
  IF pos = nxt THEN [pos |-> Null, err |-> "none"]
  ELSE IF pos = Null THEN [pos |-> Null, err |-> "TypeError"]
  ELSE IF fuel = 0 THEN [pos |-> Null, err |-> "diverges"]
  ELSE IF cmp(c, node, pos) < 0 THEN [pos |-> pos, err |-> "none"]
  ELSE Scan(h, c, node, h.next[pos], nxt, fuel - 1)

\* One pass of the do/while body; s carries the heap and the loop's locals.
SortStep(s, l, c) ==
  LET node == s.next IN
  IF node = Null THEN [s EXCEPT !.err = "TypeError"]
  ELSE
  LET nxt == s.h.next[node]
      r   == remove(s.h, l, node)
  IN  IF r.err # "none" THEN [s EXCEPT !.h = r.h, !.node = node, !.next = nxt, !.err = r.err]
      ELSE
      LET sc == Scan(r.h, c, node, s.tmpStart, nxt, MaxNodes + 1) IN
      IF sc.err # "none" THEN [s EXCEPT !.h = r.h, !.node = node, !.next = nxt, !.err = sc.err]
      ELSE IF sc.pos # Null
      THEN [s EXCEPT !.h = insertBefore(r.h, l, sc.pos, node),
                     !.tmpStart = IF sc.pos = s.tmpStart THEN node ELSE s.tmpStart,
                     !.node = node, !.next = nxt]
      ELSE [s EXCEPT !.h = IF nxt # Null THEN insertBefore(r.h, l, nxt, node)
                                         ELSE append(r.h, l, node),
                     !.tmpEnd = node,
                     !.node = node, !.next = nxt]

RECURSIVE SortLoop(_, _, _, _, _)
SortLoop(s, l, end, c, fuel) ==
  LET t == SortStep(s, l, c) IN
  IF t.err # "none" THEN t
  ELSE IF t.node = end THEN t
  ELSE IF fuel = 0 THEN [t EXCEPT !.err = "diverges"]
  ELSE SortLoop(t, l, end, c, fuel - 1)

\* sortSubset returns the heap, the pair {start, end} and the error thrown.
sortSubset(h, l, start, end, c) ==
  IF start = end THEN [h |-> h, start |-> start, end |-> end, err |-> "none"]
  ELSE LET s0 == [h |-> h, tmpStart |-> start, tmpEnd |-> start,
                  node |-> start, next |-> h.next[start], err |-> "none"]
           t  == SortLoop(s0, l, end, c, MaxNodes + 1)
       IN  [h |-> t.h, start |-> t.tmpStart, end |-> t.tmpEnd, err |-> t.err]

----------------------------------------------------------------------------
(* applyTransform *)

\* The visit hooks a transform may define.  "same" returns the node it is
\* given; "replace" returns a newly constructed node that carries the
\* visited node's prev and next.
Visits == {"undefined", "same", "replace"}

\* Two more visit hooks, which act on the nodes the transform has marked and
\* return any other node as it is: "delete" calls list.remove(node) and
\* returns what remove returned; "insertAfter" calls list.insertAfter(node,
\* new) with a newly constructed node and returns node.
MarkedVisits == {"delete", "insertAfter"}

\* The visitList hooks: "insertHead" puts a newly constructed node in front
\* of the list (list.insertBefore(list.head, new), or list.append(new) on an
\* empty list).  The finalize hooks: "defined" does nothing to the list.
VisitLists == {"undefined", "insertHead"}
Finalizes == {"undefined", "defined"}

Transform(vl, v, f, m) == [visitList |-> vl, visit |-> v, finalize |-> f, marked |-> m]
NoTransform == Transform("undefined", "undefined", "undefined", {})

\* transform.visitList(list): t carries the heap, the number of constructed
\* nodes, the ghost owner map and the hooks called so far.
visitList(kind, t, l) ==
  IF kind = "insertHead"
  THEN IF t.allocated = MaxNodes
       THEN [t EXCEPT !.err = "bound"]
       ELSE LET new == t.allocated + 1 IN
            [t EXCEPT !.h = IF t.h.head[l] # Null
                            THEN insertBefore(t.h, l, t.h.head[l], new)
                            ELSE append(t.h, l, new),
                      !.allocated = new,
                      !.owner = [t.owner EXCEPT ![new] = l]]
  ELSE t

\* transform.visit(node, list); ret is the node returned.
visit(kind, t, l, node) ==
  IF kind = "replace"
  THEN IF t.allocated = MaxNodes
       THEN [t EXCEPT !.err = "bound"]
       ELSE LET new == t.allocated + 1 IN
            [t EXCEPT !.h = [t.h EXCEPT !.prev[new] = t.h.prev[node],
                                        !.next[new] = t.h.next[node]],
                      !.allocated = new,
                      !.owner = [t.owner EXCEPT ![node] = Replaced, ![new] = l],
                      !.ret = new]
  ELSE IF kind = "delete" /\ node \in t.marked
  THEN LET r == remove(t.h, l, node) IN
       [t EXCEPT !.h = r.h, !.err = r.err, !.ret = r.ret,
                 !.owner = IF r.err = "none" THEN [t.owner EXCEPT ![node] = Detached]
                           ELSE t.owner]
  ELSE IF kind = "insertAfter" /\ node \in t.marked
  THEN IF t.allocated = MaxNodes
       THEN [t EXCEPT !.err = "bound"]
       ELSE LET new == t.allocated + 1 IN
            [t EXCEPT !.h = insertAfter(t.h, l, node, new),
                      !.allocated = new,
                      !.owner = [t.owner EXCEPT ![new] = l],
                      !.ret = node]
  ELSE [t EXCEPT !.ret = node]

\* The assignments applyTransform makes around the node a visit returned.
Relink(h, l, node) ==
  LET h1 == IF h.prev[node] # Null
            THEN [h EXCEPT !.next[h.prev[node]] = node]
            ELSE [h EXCEPT !.head[l] = node]
  IN  IF h1.next[node] # Null
      THEN [h1 EXCEPT !.prev[h1.next[node]] = node]
      ELSE [h1 EXCEPT !.tail[l] = node]

\* The while loop of applyTransform.  AfterVisit is the rest of one pass
\* once the visit has returned v: the assignments around the node returned,
\* then on from its next.  (The visit's result is bound once, as the element
\* of a one-element set.)
RECURSIVE VisitLoop(_, _, _, _, _)
AfterVisit(kind, v, l, fuel) ==
  IF v.err # "none" THEN v
  ELSE IF v.ret = Null THEN [v EXCEPT !.err = "TypeError"]
  ELSE LET h1 == Relink(v.h, l, v.ret) IN
       VisitLoop(kind, [v EXCEPT !.h = h1, !.returned = Append(v.returned, v.ret)],
                 l, h1.next[v.ret], fuel - 1)

VisitLoop(kind, t, l, node, fuel) ==
  IF node = Null THEN t
  ELSE IF fuel = 0 THEN [t EXCEPT !.err = "diverges"]
  ELSE CHOOSE r \in { AfterVisit(kind, v, l, fuel) :
                        v \in { visit(kind, [t EXCEPT !.visited = Append(t.visited, node),
                                                      !.hooks = Append(t.hooks, "visit")],
                                      l, node) } } : TRUE

applyTransform(t, l, transform) ==
  LET t1 == IF transform.visitList # "undefined"
            THEN visitList(transform.visitList,
                           [t EXCEPT !.hooks = Append(t.hooks, "visitList")], l)
            ELSE t
      t2 == IF t1.err # "none" THEN t1
            ELSE IF transform.visit # "undefined"
            THEN VisitLoop(transform.visit, [t1 EXCEPT !.afterList = t1.h], l,
                           t1.h.head[l], 2 * MaxNodes)
            ELSE [t1 EXCEPT !.afterList = t1.h]
  IN  IF t2.err # "none" THEN t2
      ELSE IF transform.finalize # "undefined"
      THEN [t2 EXCEPT !.hooks = Append(t2.hooks, "finalize")]
      ELSE t2

----------------------------------------------------------------------------
(* The lowering pass: TemplateToIrConverter *)

\* Number of template nodes in the input of parse.
MaxSize == 3

\* An optional value: None for null or an omitted argument, Some(x) otherwise.
None == <<>>
Some(x) == <<x>>

\* Expression ASTs (expression_parser/ast), as far as the converter inspects
\* them: a property read, an interpolation, and the ASTWithSource envelope.
PropertyRead(n) ==
  [kind |-> "PropertyRead", name |-> n, strings |-> <<>>, expressions |-> <<>>, ast |-> None]
Interpolation(strs, exprs) ==
  [kind |-> "Interpolation", name |-> "", strings |-> strs, expressions |-> exprs, ast |-> None]
ASTWithSource(a) ==
  [kind |-> "ASTWithSource", name |-> "", strings |-> <<>>, expressions |-> <<>>, ast |-> Some(a)]
NoAst ==
  [kind |-> "none", name |-> "", strings |-> <<>>, expressions |-> <<>>, ast |-> None]

\* Template AST nodes (r3_ast).  value is the string of a Text, bound the
\* expression that is the value of a BoundText; name is an Element's name or
\* a Template's tagName.
TmplNode(k) ==
  [kind |-> k, name |-> "", attributes |-> <<>>, inputs |-> <<>>, references |-> <<>>,
   variables |-> <<>>, value |-> "", bound |-> NoAst, children |-> <<>>]
TmplText(v) == [TmplNode("Text") EXCEPT !.value = v]
TmplBoundText(a) == [TmplNode("BoundText") EXCEPT !.bound = a]
TmplElement(n, attrs, ins, refs) ==
  [TmplNode("Element") EXCEPT !.name = n, !.attributes = attrs, !.inputs = ins,
                              !.references = refs]
TmplTemplate(tag, vs) == [TmplNode("Template") EXCEPT !.name = tag, !.variables = vs]

\* The nodes the inputs are built from: those without children ...
Leaves ==
  { TmplText("hi"),
    TmplBoundText(ASTWithSource(Interpolation(<<"", "">>, <<PropertyRead("y")>>))),
    TmplBoundText(PropertyRead("y")) }
\* ... and those that take children.
Parents ==
  { TmplElement("div", <<[name |-> "class", value |-> "a"]>>,
                       <<[name |-> "id", value |-> PropertyRead("x")]>>, <<>>),
    TmplElement("div", <<>>, <<>>, <<[name |-> "r", value |-> ""]>>),
    TmplTemplate("", <<>>),
    TmplTemplate("div", <<[name |-> "v", value |-> ""]>>) }

\* The trees of exactly n nodes and the sequences of trees of n nodes in all.
RECURSIVE TreesOf(_), ForestsOf(_)
TreesOf(n) ==
  (IF n = 1 THEN Leaves ELSE {}) \cup
  {[p EXCEPT !.children = f] : p \in Parents, f \in ForestsOf(n - 1)}
ForestsOf(n) ==
  IF n = 0 THEN {<<>>}
  ELSE UNION {{<<t>> \o f : t \in TreesOf(k), f \in ForestsOf(n - k)} : k \in 1..n}

Inputs == UNION {ForestsOf(n) : n \in 0..MaxSize}

\* The IR nodes and lists one parse can construct: an element makes a start,
\* an end and a property per input; every converter makes two lists.
IrNodes == 1..(3 * MaxSize)
IrLists == 1..(2 * MaxSize + 2)

\* IR operations (features/element, text, embedded_views, binding): the
\* payload of a list node.  expr holds the lowered expressions (the one
\* expression of a Property, the expressions of a TextInterpolate's
\* InterpolationExpr) and strings the separators; create and update are the
\* nested lists of a Template; path is a ghost, the position in the input of
\* the template node the operation was emitted for.
IrOp(k, id) ==
  [kind |-> k, id |-> id, name |-> "", attrs |-> None, refs |-> None, value |-> None,
   expr |-> <<>>, strings |-> <<>>, create |-> Null, update |-> Null, path |-> <<>>]
ElementStart(id, name) == [IrOp("ElementStart", id) EXCEPT !.name = name]
ElementEnd(id) == IrOp("ElementEnd", id)
Text(id, value) == [IrOp("Text", id) EXCEPT !.value = value]
TextInterpolate(id, exprs, strs) ==
  [IrOp("TextInterpolate", id) EXCEPT !.expr = exprs, !.strings = strs]
Template(id, tagName) == [IrOp("Template", id) EXCEPT !.name = tagName]
Property(id, name, e) == [IrOp("Property", id) EXCEPT !.name = name, !.expr = <<e>>]
NoOp == IrOp("none", Null)

\* AttributeMarker.Bindings, the marker put before the names of bound inputs.
Bindings == "AttributeMarker.Bindings"

\* ValuePreprocessor.process: the IR-level value of a source expression.
process(e) == [lowered |-> e]

\* The memory of one parse: the lists and nodes constructed so far, the id
\* counter of the scope tree, what the scopes recorded, and the values the
\* last call returned (id, node, parsed).
NoParser == [create |-> Null, update |-> Null, scope |-> <<>>]
NoParse ==
  [h |-> [head |-> [l \in IrLists |-> Null], tail |-> [l \in IrLists |-> Null],
          prev |-> [n \in IrNodes |-> Null], next |-> [n \in IrNodes |-> Null]],
   op |-> [n \in IrNodes |-> NoOp],
   nodes |-> 0, lists |-> 0, nextId |-> 0, recorded |-> <<>>,
   id |-> Null, node |-> Null, parsed |-> NoParser, name |-> "", err |-> "none"]

\* Scope.root(), Scope.child(ownerId): a scope is named by the ids of the
\* templates that enclose it.
root == <<>>
child(scope, ownerId) == Append(scope, ownerId)

\* Scope.allocateId(): ids are unique within the scope tree and increase.
allocateId(st) == [st EXCEPT !.id = st.nextId, !.nextId = st.nextId + 1]

\* Scope.recordReference(name, id, value) returns the Reference it recorded;
\* Scope.recordVariable(name, id, value) records and returns nothing.
Reference(name, id, value) == [name |-> name, id |-> id, value |-> value]
recordReference(st, scope, name, id, value) ==
  [st EXCEPT !.recorded = Append(@, [scope |-> scope, kind |-> "reference",
                                     target |-> Reference(name, id, value)])]
recordVariable(st, scope, name, id, value) ==
  [st EXCEPT !.recorded = Append(@, [scope |-> scope, kind |-> "variable",
                                     target |-> Reference(name, id, value)])]

\* new TemplateToIrConverter(scope): a new CreateList and a new UpdateList.
NewConverter(st, scope) ==
  [st EXCEPT !.lists = st.lists + 2,
             !.parsed = [create |-> st.lists + 1, update |-> st.lists + 2, scope |-> scope]]

\* new <operation>(...): the next node object, carrying payload.
NewNode(st, payload) ==
  [st EXCEPT !.nodes = st.nodes + 1, !.op[st.nodes + 1] = payload, !.node = st.nodes + 1]

\* list.append(node) on a list of the parse.
appendTo(st, l, node) == [st EXCEPT !.h = append(st.h, l, node)]

\* elementStart.attrs.push(x)
PushAttr(st, start, x) == [st EXCEPT !.op[start].attrs = Some(Append(@[1], x))]

\* PushAttributes that pushes only the names of the attributes.
RECURSIVE PushAttributeNames(_, _, _, _)
PushAttributeNames(st, start, attributes, i) ==
  IF i > Len(attributes) THEN st
  ELSE PushAttributeNames(PushAttr(st, start, attributes[i].name), start, attributes, i + 1)

\* The loop over element.attributes: each name, then its value.
RECURSIVE PushAttributes(_, _, _, _)
PushAttributes(st, start, attributes, i) ==
  IF i > Len(attributes) THEN st
  ELSE PushAttributes(PushAttr(PushAttr(st, start, attributes[i].name), start,
                               attributes[i].value),
                      start, attributes, i + 1)

\* The loop over element.inputs: the input's name goes to attrs, and a
\* Property for it to the update list.
RECURSIVE PushInputs(_, _, _, _, _, _, _)
PushInputs(st, parser, start, id, inputs, i, path) ==
  IF i > Len(inputs) THEN st
  ELSE LET s1 == PushAttr(st, start, inputs[i].name)
           s2 == NewNode(s1, [Property(id, inputs[i].name, process(inputs[i].value))
                                EXCEPT !.path = path])
       IN  PushInputs(appendTo(s2, parser.update, s2.node), parser, start, id, inputs,
                      i + 1, path)

\* The loops over references: each is recorded in the scope, and the
\* References returned are collected; null when there are none.
RECURSIVE RecordReferences(_, _, _, _, _)
RecordReferences(st, scope, references, id, i) ==
  IF i > Len(references) THEN st
  ELSE RecordReferences(recordReference(st, scope, references[i].name, id,
                                        references[i].value),
                        scope, references, id, i + 1)

Refs(references, id) ==
  IF Len(references) > 0
  THEN Some([i \in 1..Len(references) |->
               Reference(references[i].name, id, references[i].value)])
  ELSE None

\* The loop of parseChild over input.variables.
RECURSIVE RecordVariables(_, _, _, _, _)
RecordVariables(st, scope, variables, id, i) ==
  IF i > Len(variables) THEN st
  ELSE RecordVariables(recordVariable(st, scope, variables[i].name, id, variables[i].value),
                       scope, variables, id, i + 1)

visitText(st, parser, text, path) ==
  LET s1 == allocateId(st)
      s2 == NewNode(s1, [Text(s1.id, Some(text.value)) EXCEPT !.path = path])
  IN  appendTo(s2, parser.create, s2.node)

visitBoundText(st, parser, text, path) ==
  LET s1  == allocateId(st)
      id  == s1.id
      s2  == NewNode(s1, [Text(id, None) EXCEPT !.path = path])
      s3  == appendTo(s2, parser.create, s2.node)
      top == IF text.bound.kind = "ASTWithSource" THEN text.bound.ast[1] ELSE text.bound
  IN  IF top.kind = "Interpolation"
      THEN LET s4 == NewNode(s3, [TextInterpolate(id,
                                     [i \in 1..Len(top.expressions) |->
                                        process(top.expressions[i])],
                                     top.strings)
                                    EXCEPT !.path = path])
           IN  appendTo(s4, parser.update, s4.node)
      ELSE [s3 EXCEPT !.err = "BoundText is not an interpolation expression?"]

RECURSIVE visitAll(_, _, _, _, _)
RECURSIVE visitElement(_, _, _, _)
RECURSIVE parseChild(_, _, _, _, _)
RECURSIVE visitTemplate(_, _, _, _)

\* node.visit(parser): the visitor method of the node's kind.
Accept(st, parser, node, path) ==
  IF node.kind = "Element" THEN visitElement(st, parser, node, path)
  ELSE IF node.kind = "Text" THEN visitText(st, parser, node, path)
  ELSE IF node.kind = "BoundText" THEN visitBoundText(st, parser, node, path)
  ELSE visitTemplate(st, parser, node, path)

\* for (const node of nodes) node.visit(parser): the loops of parseRoot and
\* parseChild, and tmpl.visitAll; an error thrown by a visit ends the loop.
visitAll(st, parser, nodes, path, i) ==
  IF i > Len(nodes) \/ st.err # "none" THEN st
  ELSE visitAll(Accept(st, parser, nodes[i], Append(path, i)), parser, nodes, path, i + 1)

\* visitElement that appends the ElementEnd before it visits the children.
visitElementEndFirst(st, parser, element, path) ==
  LET s1    == allocateId(st)
      id    == s1.id
      s2    == RecordReferences(s1, parser.scope, element.references, id, 1)
      s3    == NewNode(s2, [ElementStart(id, element.name) EXCEPT
                              !.refs = Refs(element.references, id), !.path = path])
      start == s3.node
      s4    == appendTo(s3, parser.create, start)
      s5    == IF Len(element.attributes) > 0 \/ Len(element.inputs) > 0
               THEN LET a1 == [s4 EXCEPT !.op[start].attrs = Some(<<>>)]
                        a2 == PushAttributes(a1, start, element.attributes, 1)
                        a3 == IF Len(element.inputs) > 0
                              THEN PushAttr(a2, start, Bindings) ELSE a2
                    IN  PushInputs(a3, parser, start, id, element.inputs, 1, path)
               ELSE s4
      s6    == NewNode(s5, [ElementEnd(id) EXCEPT !.path = path])
      s7    == appendTo(s6, parser.create, s6.node)
  IN  visitAll(s7, parser, element.children, path, 1)

visitElement(st, parser, element, path) ==
  LET s1    == allocateId(st)
      id    == s1.id
      s2    == RecordReferences(s1, parser.scope, element.references, id, 1)
      s3    == NewNode(s2, [ElementStart(id, element.name) EXCEPT
                              !.refs = Refs(element.references, id), !.path = path])
      start == s3.node
      s4    == appendTo(s3, parser.create, start)
      s5    == IF Len(element.attributes) > 0 \/ Len(element.inputs) > 0
               THEN LET a1 == [s4 EXCEPT !.op[start].attrs = Some(<<>>)]
                        a2 == PushAttributes(a1, start, element.attributes, 1)
                        a3 == IF Len(element.inputs) > 0
                              THEN PushAttr(a2, start, Bindings) ELSE a2
                    IN  PushInputs(a3, parser, start, id, element.inputs, 1, path)
               ELSE s4
      s6    == visitAll(s5, parser, element.children, path, 1)
  IN  IF s6.err # "none" THEN s6
      ELSE LET s7 == NewNode(s6, [ElementEnd(id) EXCEPT !.path = path])
           IN  appendTo(s7, parser.create, s7.node)

\* parseChild that visits the children with the parent's converter.
parseChildInParent(st, parser, id, input, path) ==
  LET childScope == child(parser.scope, id)
      s1 == NewConverter(st, childScope)
      p  == s1.parsed
      s2 == RecordVariables(s1, childScope, input.variables, id, 1)
      s3 == visitAll(s2, parser, input.children, path, 1)
  IN  [s3 EXCEPT !.parsed = p]

\* parseChild leaves what finalize returned in st.parsed.
parseChild(st, parser, id, input, path) ==
  LET childScope == child(parser.scope, id)
      s1 == NewConverter(st, childScope)
      p  == s1.parsed
      s2 == RecordVariables(s1, childScope, input.variables, id, 1)
      s3 == visitAll(s2, p, input.children, path, 1)
  IN  [s3 EXCEPT !.parsed = p]

visitTemplate(st, parser, template, path) ==
  LET s1 == allocateId(st)
      id == s1.id
      s2 == parseChild(s1, parser, id, template, path)
  IN  IF s2.err # "none" THEN s2
      ELSE
      LET parsed == s2.parsed
          s3   == RecordReferences(s2, parser.scope, template.references, id, 1)
          s4   == NewNode(s3, [Template(id, IF template.name # "" THEN template.name
                                            ELSE "ng-template")
                                 EXCEPT !.path = path])
          view == s4.node
          s5   == appendTo(s4, parser.create, view)
      IN  [s5 EXCEPT !.op[view].create = parsed.create,
                     !.op[view].update = parsed.update,
                     !.op[view].refs = Refs(template.references, id)]

\* parseRoot followed by root.name = name; the RootTemplate is left in
\* st.parsed and st.name.
parse(input, name) ==
  LET s1 == NewConverter(NoParse, root)
      p  == s1.parsed
      s2 == visitAll(s1, p, input, <<>>, 1)
  IN  IF s2.err # "none" THEN s2 ELSE [s2 EXCEPT !.parsed = p, !.name = name]

----------------------------------------------------------------------------
(* The calls a client makes *)

NoHeap == [head |-> [l \in Lists |-> Null], tail |-> [l \in Lists |-> Null],
           prev |-> [n \in Nodes |-> Null], next |-> [n \in Nodes |-> Null]]

NoCall == [op |-> "init", list |-> 0, node |-> Null, ref |-> Null, ret |-> Null,
           pre |-> <<>>, preOther |-> <<>>, preHeap |-> NoHeap, preOwner |-> [n \in Nodes |-> Detached],
           start |-> Null, end |-> Null, retStart |-> Null, retEnd |-> Null, cmp |-> NoCmp,
           hook |-> "undefined", visited |-> <<>>, returned |-> <<>>,
           transform |-> NoTransform, hooks |-> <<>>, afterList |-> NoHeap,
           input |-> <<>>, parsed |-> NoParse]

Init ==
  /\ head = [l \in Lists |-> Null]
  /\ tail = [l \in Lists |-> Null]
  /\ prev = [n \in Nodes |-> Null]
  /\ next = [n \in Nodes |-> Null]
  /\ allocated = 0
  /\ owner = [n \in Nodes |-> Detached]
  /\ spent = FALSE
  /\ err = "none"
  /\ calls = 0
  /\ last = NoCall

\* The nodes a client may insert: a newly constructed one, or one it removed.
Insertable == {n \in Nodes : n <= allocated /\ owner[n] = Detached}
                \cup (IF allocated < MaxNodes THEN {allocated + 1} ELSE {})

Members(l) == {n \in Nodes : owner[n] = l}

Usable(l) == err = "none" /\ calls < MaxCalls /\ (l = 2 => ~spent)

SetHeap(h) ==
  /\ calls' = calls + 1
  /\ head' = h.head
  /\ tail' = h.tail
  /\ prev' = h.prev
  /\ next' = h.next

Construct(node) == allocated' = IF node > allocated THEN node ELSE allocated

Call(op, l, node, ref, ret) ==
  [NoCall EXCEPT !.op = op, !.list = l, !.node = node, !.ref = ref, !.ret = ret,
                  !.pre = toArray(Heap, l), !.preHeap = Heap, !.preOwner = owner]

DoAppend(l, node) ==
  /\ Usable(l)
  /\ node \in Insertable
  /\ SetHeap(append(Heap, l, node))
  /\ Construct(node)
  /\ owner' = [owner EXCEPT ![node] = l]
  /\ last' = Call("append", l, node, Null, Null)
  /\ UNCHANGED <<spent, err>>

DoInsertBefore(l, before, insert) ==
  /\ Usable(l)
  /\ before \in Members(l)
  /\ insert \in Insertable
  /\ SetHeap(insertBefore(Heap, l, before, insert))
  /\ Construct(insert)
  /\ owner' = [owner EXCEPT ![insert] = l]
  /\ last' = Call("insertBefore", l, insert, before, Null)
  /\ UNCHANGED <<spent, err>>

DoInsertAfter(l, after, insert) ==
  /\ Usable(l)
  /\ after \in Members(l)
  /\ insert \in Insertable
  /\ SetHeap(insertAfter(Heap, l, after, insert))
  /\ Construct(insert)
  /\ owner' = [owner EXCEPT ![insert] = l]
  /\ last' = Call("insertAfter", l, insert, after, Null)
  /\ UNCHANGED <<spent, err>>

DoRemove(l, node) ==
  /\ Usable(l)
  /\ node \in Members(l)
  /\ LET r == remove(Heap, l, node) IN
       /\ SetHeap(r.h)
       /\ err' = r.err
       /\ last' = Call("remove", l, node, Null, r.ret)
       /\ owner' = IF r.err = "none" THEN [owner EXCEPT ![node] = Detached] ELSE owner
  /\ UNCHANGED <<allocated, spent>>

\* list 1 .prependList(list 2)
DoPrependList ==
  /\ Usable(1) /\ Usable(2)
  /\ SetHeap(prependList(Heap, 1, 2))
  /\ owner' = [n \in Nodes |-> IF owner[n] = 2 THEN 1 ELSE owner[n]]
  /\ spent' = (Members(2) # {})
  /\ last' = [Call("prependList", 1, Null, Null, Null) EXCEPT !.preOther = toArray(Heap, 2)]
  /\ UNCHANGED <<allocated, err>>

\* new LinkedList(): the client drops the list it passed to prependList and
\* constructs another one in its place.
DoNewList ==
  /\ err = "none"
  /\ spent
  /\ calls' = calls
  /\ head' = [head EXCEPT ![2] = Null]
  /\ tail' = [tail EXCEPT ![2] = Null]
  /\ spent' = FALSE
  /\ last' = Call("new", 2, Null, Null, Null)
  /\ UNCHANGED <<prev, next, allocated, owner, err>>

\* list 1 .sortSubset(start, end, cmp); start is at or before end.
DoSortSubset(start, end, c) ==
  /\ Usable(1)
  /\ Terminates(Heap, 1)
  /\ start \in Range(toArray(Heap, 1)) /\ end \in Range(toArray(Heap, 1))
  /\ IndexOf(toArray(Heap, 1), start) <= IndexOf(toArray(Heap, 1), end)
  /\ LET r == sortSubset(Heap, 1, start, end, c) IN
       /\ SetHeap(r.h)
       /\ err' = r.err
       /\ last' = [Call("sortSubset", 1, Null, Null, Null) EXCEPT
                     !.start = start, !.end = end,
                     !.retStart = r.start, !.retEnd = r.end, !.cmp = c]
  /\ UNCHANGED <<allocated, owner, spent>>

\* list 1 .applyTransform(transform)
DoApplyTransform(transform) ==
  /\ Usable(1)
  /\ LET t0 == [h |-> Heap, allocated |-> allocated, owner |-> owner, err |-> "none",
                ret |-> Null, visited |-> <<>>, returned |-> <<>>,
                marked |-> transform.marked, hooks |-> <<>>, afterList |-> Heap]
         r  == applyTransform(t0, 1, transform)
     IN  /\ r.err # "bound"
         /\ SetHeap(r.h)
         /\ allocated' = r.allocated
         /\ owner' = r.owner
         /\ err' = r.err
         /\ last' = [Call("applyTransform", 1, Null, Null, Null) EXCEPT
                       !.hook = transform.visit,
                       !.visited = r.visited, !.returned = r.returned,
                       !.transform = transform, !.hooks = r.hooks,
                       !.afterList = r.afterList]
  /\ UNCHANGED spent

\* Clients that call append, insertBefore, insertAfter, remove and prependList.
ListNext ==
  \/ \E l \in Lists, n \in Nodes : DoAppend(l, n)
  \/ \E l \in Lists, b \in Nodes, n \in Nodes : DoInsertBefore(l, b, n)
  \/ \E l \in Lists, a \in Nodes, n \in Nodes : DoInsertAfter(l, a, n)
  \/ \E l \in Lists, n \in Nodes : DoRemove(l, n)
  \/ DoPrependList
  \/ DoNewList

ListSpec == Init /\ [][ListNext]_vars

\* Clients that also run transforms over list 1.
Next ==
  \/ ListNext
  \/ \E v \in Visits : DoApplyTransform(Transform("undefined", v, "undefined", {}))

Spec == Init /\ [][Next]_vars

\* Clients that only append newly constructed nodes to lists that start empty.
AppendNext == \E l \in Lists : DoAppend(l, allocated + 1)

AppendSpec == Init /\ [][AppendNext]_vars

\* parse(input, name), called once by a client that does nothing else.
DoParse(input) ==
  /\ err = "none"
  /\ last.op = "init"
  /\ calls' = calls + 1
  /\ LET r == parse(input, "root") IN
       /\ err' = r.err
       /\ last' = [NoCall EXCEPT !.op = "parse", !.input = input, !.parsed = r]
  /\ UNCHANGED <<head, tail, prev, next, allocated, owner, spent>>

LowerNext == \E input \in Inputs : DoParse(input)

LowerSpec == Init /\ [][LowerNext]_vars

\* list l .remove(node) by a caller that breaks the contract: node has been
\* constructed but is not in list l.
DoRemoveForeign(l, node) ==
  /\ Usable(l)
  /\ node \in 1..allocated
  /\ node \notin Members(l)
  /\ LET r == remove(Heap, l, node) IN
       /\ SetHeap(r.h)
       /\ err' = r.err
       /\ last' = Call("remove", l, node, Null, r.ret)
       /\ owner' = IF r.err = "none" THEN [owner EXCEPT ![node] = Detached] ELSE owner
  /\ UNCHANGED <<allocated, spent>>

\* Clients that append to both lists and remove any node from either list,
\* whether it is in that list or not.
MisuseNext ==
  \/ \E l \in Lists, n \in Nodes : DoAppend(l, n)
  \/ \E l \in Lists, n \in Nodes : DoRemove(l, n)
  \/ \E l \in Lists, n \in Nodes : DoRemoveForeign(l, n)

MisuseSpec == Init /\ [][MisuseNext]_vars

\* Clients that build list 1 with append and remove and then run one
\* transform over it: any combination of hooks, a marking visit hook having
\* marked one node of the list or all of them.
Transforming == last.op # "applyTransform"

TransformNext ==
  \/ \E n \in Nodes : Transforming /\ DoAppend(1, n)
  \/ \E n \in Nodes : Transforming /\ DoRemove(1, n)
  \/ \E vl \in VisitLists, v \in Visits \cup MarkedVisits, f \in Finalizes :
       \E m \in IF v \in MarkedVisits
                THEN {{n} : n \in Members(1)} \cup {Members(1)}
                ELSE {{}} :
         Transforming /\ DoApplyTransform(Transform(vl, v, f, m))

TransformSpec == Init /\ [][TransformNext]_vars

Building == last.op # "sortSubset"

\* Clients that build list 1 with append and remove and then sort one run of
\* it: the run is any stretch i..j of the list, the comparator any mode over
\* any keys of the run's nodes.
SortNext ==
  \/ \E n \in Nodes : Building /\ DoAppend(1, n)
  \/ \E n \in Nodes : Building /\ DoRemove(1, n)
  \/ \E i \in 1..MaxNodes, j \in 1..MaxNodes, m \in Modes :
       /\ Building
       /\ i <= j /\ j <= Len(toArray(Heap, 1))
       /\ \E k \in [Run(toArray(Heap, 1), i, j) -> Keys] :
            DoSortSubset(toArray(Heap, 1)[i], toArray(Heap, 1)[j], Comparator(m, k))

SortSpec == Init /\ [][SortNext]_vars

----------------------------------------------------------------------------
(* Properties *)

\* The lists a client still holds.
Live == {l \in Lists : l = 1 \/ ~spent}

\* C1: after every call on a list, head is null exactly when tail is null,
\* and in a non-empty list head.prev and tail.next are null.
C1_HeadTailInvariant == \A l \in Live : HeadTailOk(Heap, l)

\* C2: after every call, each pair of neighbours reached from the head is
\* linked both ways, and among the nodes reached only the head has a null
\* prev and only the tail a null next.
C2_LinksSymmetric == \A l \in Live : LinksOk(Heap, l)

\* C3: after every call, following next from the head reaches null without
\* visiting a node twice, and the last node visited is the tail.
C3_ChainAcyclic == \A l \in Live : ChainOk(Heap, l)

\* C4: a node that is in no list (never inserted, or removed and not inserted
\* again) has both links null.
C4_DetachedLinksNull ==
  \A n \in Nodes : owner[n] = Detached => prev[n] = Null /\ next[n] = Null

\* The last call was sortSubset; the run it was given and the run it returned.
Sorted == last.op = "sortSubset"
SortedWellFormed == Sorted /\ WellFormed(last.preHeap, 1)
OrigRun ==
  SubSeq(last.pre, IndexOf(last.pre, last.start), IndexOf(last.pre, last.end))

\* The nodes met walking next from node up to and including end; a walk that
\* falls off the list or does not arrive ends in Null.
RECURSIVE Upto(_, _, _, _)
Upto(h, node, end, fuel) ==
  IF node = Null \/ fuel = 0 THEN <<Null>>
  ELSE IF node = end THEN <<node>>
  ELSE <<node>> \o Upto(h, h.next[node], end, fuel - 1)

RetRun == Upto(Heap, last.retStart, last.retEnd, MaxNodes + 1)

\* C5: sortSubset on a well-formed list returns, and in the run from the
\* returned start to the returned end no node compares strictly less than a
\* node before it, under a total order with ties and under a partial order.
C5_RunNonDecreasing ==
  SortedWellFormed =>
    /\ err = "none"
    /\ Null \notin Range(RetRun)
    /\ \A i \in 1..Len(RetRun), j \in 1..Len(RetRun) :
         i < j => cmp(last.cmp, RetRun[j], RetRun[i]) >= 0

\* A sort of three or more nodes under the partial order that moved a node.
C5_Witness ==
  /\ SortedWellFormed /\ err = "none"
  /\ last.cmp.mode = "byGap"
  /\ Len(OrigRun) >= 3
  /\ RetRun # OrigRun

\* C6: the nodes from the returned start to the returned end are the nodes of
\* the original range, each once.
C6_RunIsPermutation ==
  Sorted /\ err = "none" =>
    /\ Len(RetRun) = Len(OrigRun)
    /\ Range(RetRun) = Range(OrigRun)

\* C7: two nodes of the range for which cmp returns 0 both ways keep their
\* relative order, for every comparator.
Stable ==
  /\ Null \notin Range(RetRun)
  /\ Range(RetRun) = Range(OrigRun)
  /\ \A a \in Range(OrigRun), b \in Range(OrigRun) :
       (/\ cmp(last.cmp, a, b) = 0 /\ cmp(last.cmp, b, a) = 0
        /\ IndexOf(OrigRun, a) < IndexOf(OrigRun, b))
       => IndexOf(RetRun, a) < IndexOf(RetRun, b)

C8_ReturnedExtremes ==
  Sorted /\ err = "none" =>
    /\ last.retStart \in Range(OrigRun)
    /\ last.retEnd \in Range(OrigRun)
    /\ Len(toArray(Heap, 1)) >= IndexOf(last.pre, last.end)
    /\ toArray(Heap, 1)[IndexOf(last.pre, last.start)] = last.retStart
    /\ toArray(Heap, 1)[IndexOf(last.pre, last.end)] = last.retEnd
    /\ last.start = last.end =>
         /\ last.retStart = last.start /\ last.retEnd = last.end
         /\ Heap = last.preHeap

\* C9: a transform whose visit returns a newly constructed node for each node
\* leaves a list of the same length whose i-th node is the node returned for
\* the i-th original node, with no original node reachable and the
\* head/tail/link invariants intact.
C9_ReplaceEveryNode ==
  last.op = "applyTransform" /\ last.hook = "replace" =>
    /\ err = "none"
    /\ last.visited = last.pre
    /\ toArray(Heap, 1) = last.returned
    /\ Len(toArray(Heap, 1)) = Len(last.pre)
    /\ Range(toArray(Heap, 1)) \cap Range(last.pre) = {}
    /\ WellFormed(Heap, 1)

\* C10: remove(node) returns the node that followed node, null when node was
\* the tail, and the list is then the earlier sequence without node.
C10_RemoveResult ==
  last.op = "remove" =>
    /\ err = "none"
    /\ last.ret = last.preHeap.next[last.node]
    /\ last.preHeap.tail[last.list] = last.node => last.ret = Null
    /\ toArray(Heap, last.list) = SelectSeq(last.pre, LAMBDA x : x # last.node)

\* The last call was list 1 .prependList(list 2).
Prepended == last.op = "prependList"

\* C11: this.prependList(other) leaves this list unchanged when other is
\* empty; an empty this list adopts other's head and tail; otherwise this
\* list's sequence is other's former sequence followed by its own former
\* sequence, head is other's former head, tail is unchanged, and the join is
\* linked both ways.
C11_PrependList ==
  Prepended =>
    IF last.preOther = <<>>
    THEN Heap = last.preHeap
    ELSE IF last.pre = <<>>
    THEN /\ head[1] = last.preHeap.head[2]
         /\ tail[1] = last.preHeap.tail[2]
    ELSE /\ toArray(Heap, 1) = last.preOther \o last.pre
         /\ head[1] = last.preHeap.head[2]
         /\ tail[1] = last.preHeap.tail[1]
         /\ next[last.preHeap.tail[2]] = last.preHeap.head[1]
         /\ prev[last.preHeap.head[1]] = last.preHeap.tail[2]

\* The sequence s with x put at position i.
InsertAt(s, i, x) == SubSeq(s, 1, i - 1) \o <<x>> \o SubSeq(s, i, Len(s))

\* C12: insertBefore(before, insert) puts insert immediately before `before`
\* and insertAfter(after, insert) immediately after `after`, the other nodes
\* keeping their order; head becomes insert exactly when `before` was the
\* head, tail becomes insert exactly when `after` was the tail.
C12_InsertPlacement ==
  /\ last.op = "insertBefore" =>
       /\ last.ref \in Range(last.pre)
       /\ toArray(Heap, last.list)
            = InsertAt(last.pre, IndexOf(last.pre, last.ref), last.node)
       /\ head[last.list] = IF last.preHeap.head[last.list] = last.ref
                            THEN last.node ELSE last.preHeap.head[last.list]
       /\ tail[last.list] = last.preHeap.tail[last.list]
  /\ last.op = "insertAfter" =>
       /\ last.ref \in Range(last.pre)
       /\ toArray(Heap, last.list)
            = InsertAt(last.pre, IndexOf(last.pre, last.ref) + 1, last.node)
       /\ tail[last.list] = IF last.preHeap.tail[last.list] = last.ref
                            THEN last.node ELSE last.preHeap.tail[last.list]
       /\ head[last.list] = last.preHeap.head[last.list]

\* The nodes of S in increasing order.  Nodes are numbered in the order they
\* are constructed, so for a client that appends every node it constructs
\* this is the order in which the nodes of S were appended.
RECURSIVE Ascending(_)
Ascending(S) ==
  IF S = {} THEN <<>>
  ELSE LET m == CHOOSE x \in S : \A y \in S : x <= y
       IN  <<m>> \o Ascending(S \ {m})

AppendOrder(l) == Ascending(Members(l))

\* C13: after N appends of distinct new nodes to an initially empty list,
\* toArray (the order of forEach's callbacks) is the append order, head is
\* the first node appended and tail the last.
C13_AppendOrder ==
  \A l \in Lists :
    /\ toArray(Heap, l) = AppendOrder(l)
    /\ AppendOrder(l) # <<>> =>
         /\ head[l] = AppendOrder(l)[1]
         /\ tail[l] = AppendOrder(l)[Len(AppendOrder(l))]

\* Three or more nodes have been appended to list 1 and two or more to list 2.
C13_Witness ==
  /\ last.op = "append"
  /\ Len(toArray(Heap, 1)) >= 3
  /\ Len(toArray(Heap, 2)) >= 2

\* The last call was parse and it returned; the operations of the lists it
\* built, in list order, without the ghost path.
Parsed == last.op = "parse" /\ err = "none"
IrArray(st, l) == Walk(st.h, st.h.head[l], Cardinality(IrNodes) + 1)
Bare(o) == [o EXCEPT !.path = <<>>]
Ops(st, l) == [i \in 1..Len(IrArray(st, l)) |-> Bare(st.op[IrArray(st, l)[i]])]
RootCreate == Ops(last.parsed, last.parsed.parsed.create)
RootUpdate == Ops(last.parsed, last.parsed.parsed.update)

\* A root template of one element div with the static attribute class="a",
\* the input id bound to x, and the child text "hi".
Example14 ==
  << [TmplElement("div", <<[name |-> "class", value |-> "a"]>>,
                         <<[name |-> "id", value |-> PropertyRead("x")]>>, <<>>)
        EXCEPT !.children = <<TmplText("hi")>>] >>

\* C14: lowering Example14 gives the create list [element-start(id=0,
\* tag="div", attrs=["class","a"]), text(id=1, value="hi"), element-end(id=0)]
\* and the update list [property-binding(target=0, name="id", lowered x)].
C14_LiteralExample ==
  last.op = "parse" /\ last.input = Example14 =>
    /\ err = "none"
    /\ RootCreate = << [ElementStart(0, "div") EXCEPT !.attrs = Some(<<"class", "a">>)],
                       Text(1, Some("hi")),
                       ElementEnd(0) >>
    /\ RootUpdate = << Property(0, "id", process(PropertyRead("x"))) >>

\* C14 as amended: the element-start's attrs are the static pair, then the
\* bindings marker, then the name of the bound input.
C14_LiteralExampleWithMarker ==
  last.op = "parse" /\ last.input = Example14 =>
    /\ err = "none"
    /\ RootCreate = << [ElementStart(0, "div") EXCEPT
                          !.attrs = Some(<<"class", "a", Bindings, "id">>)],
                       Text(1, Some("hi")),
                       ElementEnd(0) >>
    /\ RootUpdate = << Property(0, "id", process(PropertyRead("x"))) >>

\* parse was given Example14 and returned.
C14_Witness == Parsed /\ last.input = Example14

\* A root of one template wrapper whose only child is the bound text {{y}}.
Example15 ==
  << [TmplTemplate("", <<>>) EXCEPT !.children =
        << TmplBoundText(ASTWithSource(Interpolation(<<"", "">>, <<PropertyRead("y")>>))) >>] >>

\* The embedded-template node of Example15's create list, and the operations
\* of the lists it carries.
View == RootCreate[1]
NestedCreate == Ops(last.parsed, View.create)
NestedUpdate == Ops(last.parsed, View.update)

\* What lowering Example15 gives, the id of the nested text being id: one
\* embedded-template node in the parent's create list, nothing in its update
\* list, a text without static value in the nested create list and its
\* interpolation of lowered y between two empty separators in the nested
\* update list.
TemplateExample(id) ==
  /\ err = "none"
  /\ Len(RootCreate) = 1
  /\ View.kind = "Template"
  /\ RootUpdate = <<>>
  /\ NestedCreate = << Text(id, None) >>
  /\ NestedUpdate = << TextInterpolate(id, <<process(PropertyRead("y"))>>, <<"", "">>) >>

\* C15: lowering Example15 appends one embedded-template node to the parent's
\* create list and nothing to its update list; the nested create list is
\* [text(id=0, no static value)] and the nested update list is
\* [text-interpolation(id=0, lowered y, separators "", "")].
C15_TemplateExample ==
  last.op = "parse" /\ last.input = Example15 => TemplateExample(0)

\* C15 as amended: the template node takes id 0 and the nested text and its
\* interpolation take id 1, the next id of the scope tree.
C15_TemplateExampleNextId ==
  last.op = "parse" /\ last.input = Example15 =>
    /\ TemplateExample(1)
    /\ View.id = 0

\* parse was given Example15 and returned.
C15_Witness == Parsed /\ last.input = Example15

\* The last call was applyTransform; the list as visitList left it, which is
\* the list the visits start on.
Transformed == last.op = "applyTransform"
AfterList == toArray(last.afterList, 1)

\* C16: a visit hook that deletes the node it is visiting (it calls remove
\* and returns what remove returned), at any position including head and
\* tail: every node of the list is still visited exactly once, in order,
\* applyTransform returns without error, and the list is then the nodes that
\* were not deleted, with the head/tail/link invariants intact.
C16_DeleteWhileVisiting ==
  Transformed /\ last.hook = "delete" =>
    /\ err = "none"
    /\ last.visited = AfterList
    /\ toArray(Heap, 1) = SelectSeq(AfterList, LAMBDA n : n \notin last.transform.marked)
    /\ WellFormed(Heap, 1)

AssertionErrors == {"AssertionError: non-tail node has null next pointer",
                    "AssertionError: non-head node has null prev pointer"}

\* C17: when remove(node) fails with an assertion error, head, tail and every
\* node's prev and next are what they were before the call.
C17_FailedRemoveChangesNothing ==
  last.op = "remove" /\ err \in AssertionErrors => Heap = last.preHeap

\* The hook calls one applyTransform is to make, given the number of visits.
HookOrder(transform, visits) ==
  (IF transform.visitList # "undefined" THEN <<"visitList">> ELSE <<>>)
    \o [i \in 1..visits |-> "visit"]
    \o (IF transform.finalize # "undefined" THEN <<"finalize">> ELSE <<>>)

\* C18: applyTransform calls visitList (if defined) once before any visit,
\* then visit once per position starting from the head as visitList left it,
\* then finalize (if defined) once after the last visit, also on an empty
\* list; a node the hook inserts directly after the node it returns is the
\* next node visited.
C18_HookOrder ==
  Transformed =>
    /\ last.hooks = HookOrder(last.transform, Len(last.visited))
    /\ last.visited # <<>> => last.visited[1] = last.afterList.head[1]
    /\ last.hook = "undefined" \/ AfterList = <<>> => last.visited = <<>>
    /\ last.hook = "same" => last.visited = AfterList
    /\ last.hook = "insertAfter" =>
         /\ SelectSeq(last.visited, LAMBDA n : n \in Range(AfterList)) = AfterList
         /\ \A i \in 1..Len(last.visited) :
              last.visited[i] \in last.transform.marked =>
                /\ i < Len(last.visited)
                /\ last.visited[i + 1] \notin Range(AfterList)
                /\ prev[last.visited[i + 1]] = last.visited[i]

\* The nodes before the run given to sortSubset and the nodes after it.
Prefix == SubSeq(last.pre, 1, IndexOf(last.pre, last.start) - 1)
Suffix == SubSeq(last.pre, IndexOf(last.pre, last.end) + 1, Len(last.pre))

\* C19: sortSubset changes only the order inside the range: the list is then
\* the nodes before the original start, the sorted range, and the nodes after
\* the original end; head changes only if start was the head, tail only if
\* end was the tail; the head/tail/link invariants hold on return.
C19_SortFrame ==
  Sorted =>
    /\ err = "none"
    /\ toArray(Heap, 1) = Prefix \o RetRun \o Suffix
    /\ Range(RetRun) = Range(OrigRun)
    /\ head[1] # last.preHeap.head[1] => last.start = last.preHeap.head[1]
    /\ tail[1] # last.preHeap.tail[1] => last.end = last.preHeap.tail[1]
    /\ WellFormed(Heap, 1)

\* The template nodes of one template level (the children of a Template
\* belong to the next level), each with its position in the input.
RECURSIVE LevelNodes(_, _)
LevelNodes(nodes, path) ==
  UNION { {[path |-> Append(path, i), kind |-> nodes[i].kind]}
            \cup (IF nodes[i].kind = "Element"
                  THEN LevelNodes(nodes[i].children, Append(path, i)) ELSE {})
          : i \in 1..Len(nodes) }

Elements == {e.path : e \in {x \in LevelNodes(last.input, <<>>) : x.kind = "Element"}}

\* q is the position of a descendant of the node at position p.
Below(p, q) == Len(p) < Len(q) /\ SubSeq(q, 1, Len(p)) = p

\* The operations of the root's lists with the positions they were emitted for.
OpsAt(st, l) == [i \in 1..Len(IrArray(st, l)) |-> st.op[IrArray(st, l)[i]]]
Create == OpsAt(last.parsed, last.parsed.parsed.create)
Update == OpsAt(last.parsed, last.parsed.parsed.update)

\* Where in the create list the operations of kind k for the element at e are.
At(k, e) == {i \in 1..Len(Create) : Create[i].kind = k /\ Create[i].path = e}
StartOf(e) == CHOOSE i \in At("ElementStart", e) : TRUE
EndOf(e) == CHOOSE i \in At("ElementEnd", e) : TRUE

\* C20: in the create list of one template level every element has exactly
\* one element-start and one element-end, with the same id; the start comes
\* before and the end after every create node of the element's descendants;
\* the start/end pairs of two elements are nested or apart; and in the update
\* list an element's property bindings come before every update node of its
\* descendants.
C20_WellBracketed ==
  Parsed =>
    /\ \A e \in Elements :
         /\ Cardinality(At("ElementStart", e)) = 1
         /\ Cardinality(At("ElementEnd", e)) = 1
         /\ Create[StartOf(e)].id = Create[EndOf(e)].id
         /\ StartOf(e) < EndOf(e)
         /\ \A i \in 1..Len(Create) :
              Below(e, Create[i].path) => StartOf(e) < i /\ i < EndOf(e)
         /\ \A p \in 1..Len(Update), u \in 1..Len(Update) :
              (/\ Update[p].kind = "Property" /\ Update[p].path = e
               /\ Below(e, Update[u].path)) => p < u
    /\ \A e \in Elements, f \in Elements :
         e # f => \/ EndOf(e) < StartOf(f)
                  \/ EndOf(f) < StartOf(e)
                  \/ StartOf(e) < StartOf(f) /\ EndOf(f) < EndOf(e)
                  \/ StartOf(f) < StartOf(e) /\ EndOf(e) < EndOf(f)
    /\ \A i \in 1..Len(Create) :
         Create[i].kind \in {"ElementStart", "ElementEnd"} => Create[i].path \in Elements

\* An element with a bound input that holds an element with a bound input
\* that holds a bound text.
C20_Witness ==
  /\ Parsed
  /\ \E e \in Elements, f \in Elements :
       /\ Below(e, f)
       /\ \E p \in 1..Len(Update), q \in 1..Len(Update), u \in 1..Len(Update) :
            /\ Update[p].kind = "Property" /\ Update[p].path = e
            /\ Update[q].kind = "Property" /\ Update[q].path = f
            /\ Update[u].kind = "TextInterpolate" /\ Below(f, Update[u].path)

====
